---- MODULE Spec2Model ----
(***************************************************************************)
(* Derivation codes of cesrox: the SelfAddressing (digest) and SelfSigning *)
(* (signature) catalogs, their DerivationCode lengths and code strings,    *)
(* their FromStr parsers, digest dispatch and signature derivation.        *)
(*                                                                         *)
(* A Rust String is a sequence of characters; each character has a UTF-8   *)
(* width, and the byte-offset slicing of str (get(..1), &s[1..2],          *)
(* &s[1..4]) is computed on byte offsets, as Rust computes it.  A call     *)
(* returns a record tagged "Ok", "Err" or "Panic" (the thread aborts).     *)
(***************************************************************************)
EXTENDS Integers, Sequences, FiniteSets, TLC

VARIABLES s, v, t, bytes, op, ret

vars == <<s, v, t, bytes, op, ret>>

\* ------------------------------------------------------------- bounds

\* longest raw input string handed to a parser, in characters
MaxLen == 4
\* longest suffix appended after a rendered code, in characters
MaxSuffix == 1
\* longest key carried by a keyed variant, in bytes
MaxKeyLen == 1
\* longest freely chosen data / signature byte sequence
MaxBytes == 2

\* ------------------------------------------------------------- strings

\* Characters of the inputs: every character some code uses, one ASCII
\* character no code uses, and one character whose UTF-8 form has 2 bytes.
Alphabet == {"0", "1", "A", "B", "C", "D", "E", "F", "G", "H", "I", "Z", "U+00E9"}

Utf8Len(c) == IF c = "U+00E9" THEN 2 ELSE 1

RECURSIVE ByteLen(_)
ByteLen(str) == IF str = <<>> THEN 0 ELSE Utf8Len(Head(str)) + ByteLen(Tail(str))

\* str::is_char_boundary: n is 0, the byte length, or the first byte of a character
IsCharBoundary(str, n) == \E i \in 0..Len(str) : ByteLen(SubSeq(str, 1, i)) = n

\* number of characters lying before the char boundary n
CharsBefore(str, n) == CHOOSE i \in 0..Len(str) : ByteLen(SubSeq(str, 1, i)) = n

\* str::get(a..b): None unless a <= b and both are char boundaries of str
StrGet(str, a, b) ==
    IF a <= b /\ IsCharBoundary(str, a) /\ IsCharBoundary(str, b)
    THEN [tag |-> "Some", val |-> SubSeq(str, CharsBefore(str, a) + 1, CharsBefore(str, b))]
    ELSE [tag |-> "None"]

StringsUpTo(n) == UNION {[1..k -> Alphabet] : k \in 0..n}

\* ------------------------------------------------------------- results

Ok(x) == [tag |-> "Ok", val |-> x]

\* Error::DeserializeError(msg); arg is the text a format! placeholder was filled with
DeserializeError(text, arg) == [tag |-> "Err", kind |-> "DeserializeError", msg |-> text, arg |-> arg]

Panic == [tag |-> "Panic"]

NoResult == [tag |-> "None"]

NoVariant == [alg |-> "none"]

\* ------------------------------------------------------------- byte sequences

ByteVals == {0, 255}

BytesUpTo(n) == UNION {[1..k -> ByteVals] : k \in 0..n}

Zeros(n) == [i \in 1..n |-> 0]

\* the signatures the repository's own test derives from: vec![0; 64], vec![0; 114]
TestSignatures == {Zeros(64), Zeros(114)}

Keys == BytesUpTo(MaxKeyLen)

\* ------------------------------------------------------------- SelfAddressing

Unkeyed256 == {"Blake3_256", "SHA3_256", "SHA2_256"}

Keyed256 == {"Blake2B256", "Blake2S256"}

Class256 == Unkeyed256 \cup Keyed256

Class512 == {"Blake3_512", "SHA3_512", "Blake2B512", "SHA2_512"}

\* enum SelfAddressing: the keyed variants carry a Vec<u8>, the others nothing
SelfAddressing ==
    {[alg |-> a] : a \in Unkeyed256 \cup Class512}
        \cup {[alg |-> a, key |-> k] : a \in Keyed256, k \in Keys}

\* variation: the BLAKE2b-256 arm placed with the two-character codes
SelfAddressing_code_len_blake2b_wide(x) ==
    IF x.alg \in {"Blake3_256", "Blake2S256", "SHA3_256", "SHA2_256"}
    THEN 1
    ELSE 2

SelfAddressing_code_len(x) ==
    IF x.alg \in {"Blake3_256", "Blake2B256", "Blake2S256", "SHA3_256", "SHA2_256"}
    THEN 1
    ELSE 2

\* variation: the 512-bit class given the padded base64 length of 64 bytes
SelfAddressing_derivative_b64_len_padded(x) ==
    IF x.alg \in {"Blake3_256", "Blake2B256", "Blake2S256", "SHA3_256", "SHA2_256"}
    THEN 43
    ELSE 88

SelfAddressing_derivative_b64_len(x) ==
    IF x.alg \in {"Blake3_256", "Blake2B256", "Blake2S256", "SHA3_256", "SHA2_256"}
    THEN 43
    ELSE 86

\* variation: the BLAKE2s-256 arm rendering the code of BLAKE2b-256
SelfAddressing_to_str_duplicate(x) ==
    CASE x.alg = "Blake3_256" -> <<"E">>
      [] x.alg = "Blake2B256" -> <<"F">>
      [] x.alg = "Blake2S256" -> <<"F">>
      [] x.alg = "SHA3_256"   -> <<"H">>
      [] x.alg = "SHA2_256"   -> <<"I">>
      [] x.alg = "Blake3_512" -> <<"0", "D">>
      [] x.alg = "SHA3_512"   -> <<"0", "E">>
      [] x.alg = "Blake2B512" -> <<"0", "F">>
      [] x.alg = "SHA2_512"   -> <<"0", "G">>

SelfAddressing_to_str(x) ==
    CASE x.alg = "Blake3_256" -> <<"E">>
      [] x.alg = "Blake2B256" -> <<"F">>
      [] x.alg = "Blake2S256" -> <<"G">>
      [] x.alg = "SHA3_256"   -> <<"H">>
      [] x.alg = "SHA2_256"   -> <<"I">>
      [] x.alg = "Blake3_512" -> <<"0", "D">>
      [] x.alg = "SHA3_512"   -> <<"0", "E">>
      [] x.alg = "Blake2B512" -> <<"0", "F">>
      [] x.alg = "SHA2_512"   -> <<"0", "G">>

\* &s[1..2] of the "0" arm: the index expression panics where get(1..2) is None
SelfAddressing_from_str_two(str) ==
    LET second == StrGet(str, 1, 2) IN
    IF second.tag = "None" THEN Panic
    ELSE CASE second.val = <<"D">> -> Ok([alg |-> "Blake3_512"])
           [] second.val = <<"E">> -> Ok([alg |-> "SHA3_512"])
           [] second.val = <<"F">> -> Ok([alg |-> "Blake2B512"])
           [] second.val = <<"G">> -> Ok([alg |-> "SHA2_512"])
           [] OTHER -> DeserializeError("Unknown hash code", <<>>)

SelfAddressing_from_str(str) ==
    LET first == StrGet(str, 0, 1) IN
    IF first.tag = "None" THEN DeserializeError("Empty prefix", <<>>)
    ELSE CASE first.val = <<"E">> -> Ok([alg |-> "Blake3_256"])
           [] first.val = <<"F">> -> Ok([alg |-> "Blake2B256", key |-> <<>>])
           [] first.val = <<"G">> -> Ok([alg |-> "Blake2S256", key |-> <<>>])
           [] first.val = <<"H">> -> Ok([alg |-> "SHA3_256"])
           [] first.val = <<"I">> -> Ok([alg |-> "SHA2_256"])
           [] first.val = <<"0">> -> SelfAddressing_from_str_two(str)
           [] OTHER -> DeserializeError("Unknown hash algorithm code", <<>>)

\* ------------------------------------------------------------- SelfSigning

SelfSigning == {[alg |-> a] : a \in {"Ed25519Sha512", "ECDSAsecp256k1Sha256", "Ed448"}}

SelfSigning_code_len(x) ==
    IF x.alg \in {"Ed25519Sha512", "ECDSAsecp256k1Sha256"} THEN 2 ELSE 4

SelfSigning_derivative_b64_len(x) ==
    IF x.alg \in {"Ed25519Sha512", "ECDSAsecp256k1Sha256"} THEN 86 ELSE 152

SelfSigning_to_str(x) ==
    CASE x.alg = "Ed25519Sha512"        -> <<"0", "B">>
      [] x.alg = "ECDSAsecp256k1Sha256" -> <<"0", "C">>
      [] x.alg = "Ed448"                -> <<"1", "A", "A", "E">>

\* &s[1..2] of the "0" arm
SelfSigning_from_str_two(str) ==
    LET second == StrGet(str, 1, 2) IN
    IF second.tag = "None" THEN Panic
    ELSE CASE second.val = <<"B">> -> Ok([alg |-> "Ed25519Sha512"])
           [] second.val = <<"C">> -> Ok([alg |-> "ECDSAsecp256k1Sha256"])
           [] OTHER -> DeserializeError("Unknown signature type code", <<>>)

\* &s[1..4] of the "1" arm
SelfSigning_from_str_four(str) ==
    LET rest == StrGet(str, 1, 4) IN
    IF rest.tag = "None" THEN Panic
    ELSE IF rest.val = <<"A", "A", "E">> THEN Ok([alg |-> "Ed448"])
    ELSE DeserializeError("Unknown signature type code", <<>>)

\* variation: the arms matched against the whole string instead of its leading characters
SelfSigning_from_str_whole(str) ==
    IF str = <<>> THEN DeserializeError("Empty prefix", <<>>)
    ELSE CASE str = <<"0", "B">> -> Ok([alg |-> "Ed25519Sha512"])
           [] str = <<"0", "C">> -> Ok([alg |-> "ECDSAsecp256k1Sha256"])
           [] str = <<"1", "A", "A", "E">> -> Ok([alg |-> "Ed448"])
           [] OTHER -> DeserializeError("Unknown master code: {}", str)

SelfSigning_from_str(str) ==
    LET first == StrGet(str, 0, 1) IN
    IF first.tag = "None" THEN DeserializeError("Empty prefix", <<>>)
    ELSE CASE first.val = <<"0">> -> SelfSigning_from_str_two(str)
           [] first.val = <<"1">> -> SelfSigning_from_str_four(str)
           [] OTHER -> DeserializeError("Unknown master code: {}", str)

\* ------------------------------------------------------------- DerivationCode

Variants == SelfAddressing \cup SelfSigning

\* trait dispatch on the implementing type
code_len(x) ==
    IF x \in SelfAddressing THEN SelfAddressing_code_len(x) ELSE SelfSigning_code_len(x)

derivative_b64_len(x) ==
    IF x \in SelfAddressing
    THEN SelfAddressing_derivative_b64_len(x)
    ELSE SelfSigning_derivative_b64_len(x)

to_str(x) == IF x \in SelfAddressing THEN SelfAddressing_to_str(x) ELSE SelfSigning_to_str(x)

from_str(x, str) ==
    IF x \in SelfAddressing THEN SelfAddressing_from_str(str) ELSE SelfSigning_from_str(str)

\* variation: an override that reports the derived characters alone
prefix_b64_len_without_code(x) == derivative_b64_len(x)

\* the trait's default method; neither impl block overrides it
prefix_b64_len(x) == code_len(x) + derivative_b64_len(x)

\* ------------------------------------------------------------- digests

\* The hash primitives are opaque: a digest is the n-byte vector that the
\* primitive prim, keyed with key, yields for input.
Hash(prim, key, input, n) == Ok([prim |-> prim, key |-> key, input |-> input, len |-> n])

\* blake2 VarBlake2b::new_keyed(key, output_size): output_size counts bytes;
\* the constructor asserts key.len() <= 64 and output_size <= 64
VarBlake2b_new_keyed(key, output_size) ==
    IF Len(key) <= 64 /\ output_size <= 64
    THEN [tag |-> "Ok", prim |-> "VarBlake2b", key |-> key, output_size |-> output_size]
    ELSE Panic

\* blake2 VarBlake2s::new_keyed(key, output_size): the same with a limit of 32
VarBlake2s_new_keyed(key, output_size) ==
    IF Len(key) <= 32 /\ output_size <= 32
    THEN [tag |-> "Ok", prim |-> "VarBlake2s", key |-> key, output_size |-> output_size]
    ELSE Panic

\* update(input); finalize_boxed().to_vec() on a constructed hasher
finalize_boxed(hasher, input) ==
    IF hasher.tag = "Panic" THEN Panic
    ELSE Hash(hasher.prim, hasher.key, input, hasher.output_size)

blake3_256_digest(input) == Hash("blake3", <<>>, input, 32)

blake2s_256_digest(input, key) == finalize_boxed(VarBlake2s_new_keyed(key, 256), input)

blake2b_256_digest(input, key) == finalize_boxed(VarBlake2b_new_keyed(key, 256), input)

blake3_512_digest(input) == Hash("blake3_xof", <<>>, input, 64)

blake2b_512_digest(input) == Hash("Blake2b", <<>>, input, 64)

sha3_256_digest(input) == Hash("Sha3_256", <<>>, input, 32)

sha2_256_digest(input) == Hash("Sha256", <<>>, input, 32)

sha3_512_digest(input) == Hash("Sha3_512", <<>>, input, 64)

sha2_512_digest(input) == Hash("Sha512", <<>>, input, 64)

SelfAddressing_digest(x, data) ==
    CASE x.alg = "Blake3_256" -> blake3_256_digest(data)
      [] x.alg = "Blake2B256" -> blake2b_256_digest(data, x.key)
      [] x.alg = "Blake2S256" -> blake2s_256_digest(data, x.key)
      [] x.alg = "SHA3_256"   -> sha3_256_digest(data)
      [] x.alg = "SHA2_256"   -> sha2_256_digest(data)
      [] x.alg = "Blake3_512" -> blake3_512_digest(data)
      [] x.alg = "SHA3_512"   -> sha3_512_digest(data)
      [] x.alg = "Blake2B512" -> blake2b_512_digest(data)
      [] x.alg = "SHA2_512"   -> sha2_512_digest(data)

\* ------------------------------------------------------------- signature derivation

\* SelfSigningPrefix::new(code, signature): the prefix layer's constructor
SelfSigningPrefix_new(code, signature) == [derivation |-> code, signature |-> signature]

\* variation: a derive that rejects a signature whose length is not the variant's
SelfSigning_derive_validating(x, sig) ==
    IF Len(sig) = (IF x.alg = "Ed448" THEN 114 ELSE 64)
    THEN Ok(SelfSigningPrefix_new(x, sig))
    ELSE DeserializeError("Invalid signature length", <<>>)

SelfSigning_derive(x, sig) == Ok(SelfSigningPrefix_new(x, sig))

\* ------------------------------------------------------------- the state machine

\* s: the text at hand; v: the variant at hand (NoVariant when the caller holds
\* only text); t: the characters that follow a rendered code; bytes: the data
\* to digest or the signature to tag; op: the last call; ret: what it returned.

InitText ==
    /\ s \in StringsUpTo(MaxLen)
    /\ v = NoVariant
    /\ t = <<>>
    /\ bytes = <<>>

InitVariant ==
    /\ s = <<>>
    /\ v \in Variants
    /\ t \in StringsUpTo(MaxSuffix)
    /\ bytes \in BytesUpTo(MaxBytes) \cup TestSignatures

Init ==
    /\ InitText \/ InitVariant
    /\ op = "none"
    /\ ret = NoResult

\* "<code>".parse::<SelfAddressing>() on the text at hand
ParseSelfAddressing ==
    /\ op' = "SelfAddressing::from_str"
    /\ ret' = SelfAddressing_from_str(s)
    /\ UNCHANGED <<s, v, t, bytes>>

ParseSelfSigning ==
    /\ op' = "SelfSigning::from_str"
    /\ ret' = SelfSigning_from_str(s)
    /\ UNCHANGED <<s, v, t, bytes>>

\* v.to_str(), and the following characters put after it
Render ==
    /\ v \in Variants
    /\ op' = "to_str"
    /\ ret' = Ok(to_str(v))
    /\ s' = to_str(v) \o t
    /\ UNCHANGED <<v, t, bytes>>

CodeLen ==
    /\ v \in Variants
    /\ op' = "code_len"
    /\ ret' = Ok(code_len(v))
    /\ UNCHANGED <<s, v, t, bytes>>

DerivativeB64Len ==
    /\ v \in Variants
    /\ op' = "derivative_b64_len"
    /\ ret' = Ok(derivative_b64_len(v))
    /\ UNCHANGED <<s, v, t, bytes>>

PrefixB64Len ==
    /\ v \in Variants
    /\ op' = "prefix_b64_len"
    /\ ret' = Ok(prefix_b64_len(v))
    /\ UNCHANGED <<s, v, t, bytes>>

Digest ==
    /\ v \in SelfAddressing
    /\ op' = "digest"
    /\ ret' = SelfAddressing_digest(v, bytes)
    /\ UNCHANGED <<s, v, t, bytes>>

DeriveSignature ==
    /\ v \in SelfSigning
    /\ op' = "SelfSigning::derive"
    /\ ret' = SelfSigning_derive(v, bytes)
    /\ UNCHANGED <<s, v, t, bytes>>

Next ==
    \/ ParseSelfAddressing
    \/ ParseSelfSigning
    \/ Render
    \/ CodeLen
    \/ DerivativeB64Len
    \/ PrefixB64Len
    \/ Digest
    \/ DeriveSignature

Spec == Init /\ [][Next]_vars

\* ------------------------------------------------------------- properties

StartsWith(str, p) == Len(str) >= Len(p) /\ SubSeq(str, 1, Len(p)) = p

SelfAddressingCodes ==
    {<<"E">>, <<"F">>, <<"G">>, <<"H">>, <<"I">>,
     <<"0", "D">>, <<"0", "E">>, <<"0", "F">>, <<"0", "G">>}

IsDeserializeError(r) == r.tag = "Err" /\ r.kind = "DeserializeError"

IsEmptyPrefixError(r) == IsDeserializeError(r) /\ r.msg = "Empty prefix"

Parsed == op \in {"SelfAddressing::from_str", "SelfSigning::from_str"}

\* the text at hand is the rendered code of v followed by t
Rendered == v \in Variants /\ s = to_str(v) \o t

\* the parser of v's own catalog has just run
ParsedOwn ==
    \/ v \in SelfAddressing /\ op = "SelfAddressing::from_str"
    \/ v \in SelfSigning /\ op = "SelfSigning::from_str"

\* C1: whatever the input string, SelfAddressing parsing ends in Ok(variant)
\* exactly when the string starts with one of E, F, G, H, I, 0D, 0E, 0F, 0G,
\* and in Err(DeserializeError) otherwise; it never aborts.
C1_SelfAddressingParseTotal ==
    op = "SelfAddressing::from_str" =>
        /\ ret.tag \in {"Ok", "Err"}
        /\ ret.tag = "Ok" <=> \E c \in SelfAddressingCodes : StartsWith(s, c)
        /\ ret.tag = "Err" => IsDeserializeError(ret)

\* C2: whatever the input string, SelfSigning parsing returns Ed25519Sha512
\* for a string starting with 0B, ECDSAsecp256k1Sha256 for 0C, Ed448 for 1AAE,
\* and Err(DeserializeError) for every other string; it never aborts.
C2_SelfSigningParseTotal ==
    op = "SelfSigning::from_str" =>
        IF StartsWith(s, <<"0", "B">>) THEN ret = Ok([alg |-> "Ed25519Sha512"])
        ELSE IF StartsWith(s, <<"0", "C">>) THEN ret = Ok([alg |-> "ECDSAsecp256k1Sha256"])
        ELSE IF StartsWith(s, <<"1", "A", "A", "E">>) THEN ret = Ok([alg |-> "Ed448"])
        ELSE IsDeserializeError(ret)

\* C3: for every SelfAddressing variant, with any key, and every input,
\* digest returns a byte vector of length 32 for the 256-bit class and 64 for
\* the 512-bit class, and never fails.
C3_DigestLength ==
    op = "digest" =>
        /\ ret.tag = "Ok"
        /\ ret.val.len = (IF v.alg \in Class256 THEN 32 ELSE 64)

\* C4: parsing v.to_str() succeeds; it returns v itself for an unkeyed
\* variant, and for Blake2B256(k) / Blake2S256(k) the same algorithm with an
\* empty key, which equals v only when k is empty.
C4_RoundTrip ==
    (Rendered /\ t = <<>> /\ ParsedOwn) =>
        /\ ret.tag = "Ok"
        /\ ret.val.alg = v.alg
        /\ v.alg \notin Keyed256 => ret.val = v
        /\ v.alg \in Keyed256 => ret.val.key = <<>> /\ (ret.val = v <=> v.key = <<>>)

C4_Witness ==
    /\ Rendered /\ t = <<>> /\ ParsedOwn
    /\ v.alg = "Blake2S256" /\ v.key # <<>>
    /\ ret.tag = "Ok" /\ ret.val # v

\* C5: in both catalogs parsing returns the "Empty prefix" error if and only
\* if the input is empty, and a non-empty input whose first character is no
\* code character, whatever it is, returns an error with another message.
C5_EmptyDistinguished ==
    Parsed =>
        /\ IsEmptyPrefixError(ret) <=> s = <<>>
        /\ (s # <<>> /\ Head(s) \notin {"E", "F", "G", "H", "I", "0", "1"}) =>
               IsDeserializeError(ret) /\ ret.msg # "Empty prefix"

\* the wire-format table: code string, code characters, derived base64 characters
WireTable(alg) ==
    CASE alg = "Blake3_256" -> <<<<"E">>, 1, 43>>
      [] alg = "Blake2B256" -> <<<<"F">>, 1, 43>>
      [] alg = "Blake2S256" -> <<<<"G">>, 1, 43>>
      [] alg = "SHA3_256"   -> <<<<"H">>, 1, 43>>
      [] alg = "SHA2_256"   -> <<<<"I">>, 1, 43>>
      [] alg = "Blake3_512" -> <<<<"0", "D">>, 2, 86>>
      [] alg = "SHA3_512"   -> <<<<"0", "E">>, 2, 86>>
      [] alg = "Blake2B512" -> <<<<"0", "F">>, 2, 86>>
      [] alg = "SHA2_512"   -> <<<<"0", "G">>, 2, 86>>
      [] alg = "Ed25519Sha512"        -> <<<<"0", "B">>, 2, 86>>
      [] alg = "ECDSAsecp256k1Sha256" -> <<<<"0", "C">>, 2, 86>>
      [] alg = "Ed448"                -> <<<<"1", "A", "A", "E">>, 4, 152>>

\* C6: for each of the 12 variants, whatever its key, to_str, code_len and
\* derivative_b64_len are those of its row of the wire-format table, and
\* code_len is the number of characters of to_str.
C6_WireTable ==
    /\ op = "to_str" => ret.val = WireTable(v.alg)[1]
    /\ op = "code_len" => ret.val = WireTable(v.alg)[2] /\ ret.val = Len(to_str(v))
    /\ op = "derivative_b64_len" => ret.val = WireTable(v.alg)[3]

C6_Witness == op = "code_len" /\ v.alg = "Blake2B256" /\ v.key # <<>> /\ ret.val = 1

\* C7: parsing v.to_str() followed by any suffix returns what parsing
\* v.to_str() alone returns: the variant of the code, decided by the first
\* code_len(v) characters, and code_len of the result is that count.
C7_PrefixParse ==
    (Rendered /\ ParsedOwn) =>
        /\ ret = from_str(v, to_str(v))
        /\ ret = from_str(v, SubSeq(s, 1, code_len(v)))
        /\ ret.tag = "Ok"
        /\ code_len(ret.val) = code_len(v)

C7_Witness ==
    /\ Rendered /\ ParsedOwn
    /\ t # <<>> /\ v.alg = "Ed448"
    /\ ret = Ok(v) /\ Len(s) > code_len(v)

CeilDiv(a, b) == (a + b - 1) \div b

\* raw byte lengths as the claim lists them per class
RawBytes(alg) ==
    IF alg \in Class256 THEN 32
    ELSE IF alg \in Class512 \cup {"Ed25519Sha512", "ECDSAsecp256k1Sha256"} THEN 64
    ELSE 114

\* C8: derivative_b64_len is the number of unpadded base64 characters of the
\* variant's raw bytes, ceil(4 * n / 3) with n = 32, 64 or 114; a digest that
\* is returned has that n as its length.
C8_Base64Length ==
    /\ op = "derivative_b64_len" => ret.val = CeilDiv(4 * RawBytes(v.alg), 3)
    /\ (op = "digest" /\ ret.tag = "Ok") => ret.val.len = RawBytes(v.alg)

C8_Witness == op = "derivative_b64_len" /\ v.alg = "Ed448" /\ ret.val = 152

\* C9: for every variant of either catalog, whatever its key,
\* prefix_b64_len is code_len plus derivative_b64_len.
C9_PrefixLenSum ==
    op = "prefix_b64_len" =>
        /\ v \in SelfAddressing =>
               ret.val = SelfAddressing_code_len(v) + SelfAddressing_derivative_b64_len(v)
        /\ v \in SelfSigning =>
               ret.val = SelfSigning_code_len(v) + SelfSigning_derivative_b64_len(v)

C9_Witness == op = "prefix_b64_len" /\ v.alg = "Ed448" /\ ret.val = 156

\* C10: for every SelfSigning variant and every signature of any length,
\* derive never fails and returns the variant and the bytes unchanged.
C10_DerivePairs ==
    op = "SelfSigning::derive" =>
        /\ ret.tag = "Ok"
        /\ ret.val.derivation = v
        /\ ret.val.signature = bytes

C10_Witness ==
    /\ op = "SelfSigning::derive" /\ v.alg = "Ed448"
    /\ Len(bytes) \notin {64, 114}
    /\ ret = Ok([derivation |-> v, signature |-> bytes])

====
